---- MODULE Spec2Model ----
(***************************************************************************)
(* Model of sudoku_grid.py: the propagation engine (assign / eliminate),   *)
(* the backtracking search (solve_sudoku) with its selection and ordering  *)
(* strategies, and grid construction (parse_grid).                         *)
(*                                                                         *)
(* A Python name bound to a grid is modelled as a record                   *)
(*     [ret, id, cells]                                                    *)
(* ret   : what the name holds: "grid" (a Sudoku object), "False" (the     *)
(*         failure marker), or the exception the call raised               *)
(*         ("AttributeError", "ValueError"),                               *)
(* id    : the identity of the Sudoku object the call worked on,           *)
(* cells : the contents of that object's `cells` dictionary (kept also     *)
(*         when ret is "False": eliminate writes the dictionary before it  *)
(*         returns False, and the caller still holds the object).          *)
(***************************************************************************)
EXTENDS Integers, FiniteSets, Sequences, TLC

\* block size of the grids explored (a 9 x 9 grid has n = 3)
n == 2

\* number of prefilled cells in the rows handed to parse_grid
MaxPrefill == 3

Side == n * n
Digits == 1..Side
Cells == (1..Side) \X (1..Side)

\* the digits a caller may pass: the grid's digits and 0 (out of bounds)
ArgDigits == 0..Side

\* row-major enumeration of the cells, and its position function
RowMajor == [i \in 1..(Side * Side) |-> << ((i - 1) \div Side) + 1, ((i - 1) % Side) + 1 >>]
DigitSeq == [i \in 1..Side |-> i]

RECURSIVE Reverse(_)
Reverse(s) == IF s = << >> THEN << >> ELSE Append(Reverse(Tail(s)), Head(s))

\* the iteration orders of a Python set that the runs of the model use
IterOrders == {"asc", "desc"}

\* further iteration orders: cells column by column, digits starting from 2,
\* and the reverses of these
ColMajor == [i \in 1..(Side * Side) |-> << ((i - 1) % Side) + 1, ((i - 1) \div Side) + 1 >>]
RotDigits == [i \in 1..Side |-> (i % Side) + 1]
SetOrders == IterOrders \cup {"alt", "altrev"}

\* iteration over a set of cells / of digits, in the order `it`
IterCells(S, it) ==
    LET asc == SelectSeq(RowMajor, LAMBDA c : c \in S)
        alt == SelectSeq(ColMajor, LAMBDA c : c \in S)
    IN CASE it = "asc" -> asc
         [] it = "desc" -> Reverse(asc)
         [] it = "alt" -> alt
         [] it = "altrev" -> Reverse(alt)

IterDigits(S, it) ==
    LET asc == SelectSeq(DigitSeq, LAMBDA d : d \in S)
        alt == SelectSeq(RotDigits, LAMBDA d : d \in S)
    IN CASE it = "asc" -> asc
         [] it = "desc" -> Reverse(asc)
         [] it = "alt" -> alt
         [] it = "altrev" -> Reverse(alt)

\* peers of a cell: same row, column or block, the cell itself excluded
Block(c) == << (c[1] - 1) \div n, (c[2] - 1) \div n >>
peers == [c \in Cells |->
             {p \in Cells : p # c /\ (p[1] = c[1] \/ p[2] = c[2] \/ Block(p) = Block(c))}]

\* the peers of each cell in each iteration order
PeerSeq == [it \in SetOrders |-> [c \in Cells |-> IterCells(peers[c], it)]]

\* empty_grid(n): every cell holds every digit
empty_grid == [ret |-> "grid", id |-> 0, cells |-> [c \in Cells |-> Digits]]

\* the failure marker, held by a name that never referred to an object
False == [ret |-> "False", id |-> 0, cells |-> [c \in Cells |-> {}]]

\* grid.copy(): a new Sudoku object with the same candidate sets
copy(grid) == [grid EXCEPT !.id = grid.id + 1]

(***************************************************************************)
(* STEP 2: eliminate and assign                                            *)
(***************************************************************************)
RECURSIVE eliminate(_, _, _, _)
RECURSIVE eliminate_peers(_, _, _, _)

\* the loop of lines 153-154 returning from inside its body: only the first
\* peer is visited
eliminate_peers_first(grid, ps, d, it) == eliminate(grid, ps[1], d, it)

\* lines 153-154: for peer in grid.peers[cell]: grid = eliminate(grid, peer, d)
\* The loop over ps is the loop over its first half followed by the loop over
\* its second half; once grid is False every remaining call of eliminate
\* returns it at once (lines 135-137), so does the rest of the loop.
eliminate_peers(grid, ps, d, it) ==
    IF Len(ps) = 1 THEN eliminate(grid, ps[1], d, it)
    ELSE LET h == Len(ps) \div 2
             first == eliminate_peers(grid, SubSeq(ps, 1, h), d, it)
         IN IF first.ret = "False" THEN first
            ELSE eliminate_peers(first, SubSeq(ps, h + 1, Len(ps)), d, it)

\* eliminate without lines 151-154: a forced cell is not propagated to its peers
eliminate_no_peers(grid, cell, digit, it) ==
    LET possible_digits == grid.cells[cell]
        new_digits == possible_digits \ {digit}
        written == [grid EXCEPT !.cells[cell] = new_digits]
    IN CASE grid.ret = "False" -> grid
         [] grid.ret # "False" /\ digit \notin possible_digits -> grid
         [] grid.ret # "False" /\ digit \in possible_digits /\ new_digits = {} ->
                [written EXCEPT !.ret = "False"]
         [] grid.ret # "False" /\ digit \in possible_digits /\ new_digits # {} -> written

\* eliminate with `len(new_digits) >= 1` at line 151: the first remaining digit
\* is propagated although others remain
eliminate_eager(grid, cell, digit, it) ==
    LET possible_digits == grid.cells[cell]
        new_digits == possible_digits \ {digit}
        written == [grid EXCEPT !.cells[cell] = new_digits]
        present == grid.ret # "False" /\ digit \in possible_digits
    IN CASE grid.ret = "False" -> grid
         [] grid.ret # "False" /\ digit \notin possible_digits -> grid
         [] present /\ Cardinality(new_digits) = 0 -> [written EXCEPT !.ret = "False"]
         [] present /\ Cardinality(new_digits) >= 1 ->
                eliminate_peers(written, PeerSeq[it][cell], IterDigits(new_digits, it)[1], it)

\* eliminate(grid, cell, digit), lines 135-156
eliminate(grid, cell, digit, it) ==
    LET possible_digits == grid.cells[cell]
        new_digits == possible_digits \ {digit}
        written == [grid EXCEPT !.cells[cell] = new_digits]
        present == grid.ret # "False" /\ digit \in possible_digits
    IN CASE grid.ret = "False" -> grid
         [] grid.ret # "False" /\ digit \notin possible_digits -> grid
         [] present /\ Cardinality(new_digits) = 0 -> [written EXCEPT !.ret = "False"]
         [] present /\ Cardinality(new_digits) = 1 /\ PeerSeq[it][cell] # << >> ->
                eliminate_peers(written, PeerSeq[it][cell], CHOOSE d \in new_digits : TRUE, it)
         [] present /\ Cardinality(new_digits) = 1 /\ PeerSeq[it][cell] = << >> -> written
         [] present /\ Cardinality(new_digits) > 1 -> written

\* lines 121-122: for d in other_values: grid = eliminate(grid, cell, d)
\* (split in halves as above)
RECURSIVE eliminate_values(_, _, _, _)
eliminate_values(grid, cell, ds, it) ==
    IF Len(ds) = 0 THEN grid
    ELSE IF Len(ds) = 1 THEN eliminate(grid, cell, ds[1], it)
    ELSE LET h == Len(ds) \div 2
             first == eliminate_values(grid, cell, SubSeq(ds, 1, h), it)
         IN IF first.ret = "False" THEN first
            ELSE eliminate_values(first, cell, SubSeq(ds, h + 1, Len(ds)), it)

\* assign that returns the copy untouched when the digit is not a candidate
assign_absent_kept(grid, cell, digit, it) ==
    IF grid.ret = "False"
    THEN [out |-> [grid EXCEPT !.ret = "AttributeError"], arg |-> grid.cells]
    ELSE LET local == copy(grid)
             other_values == IF digit \in local.cells[cell]
                             THEN local.cells[cell] \ {digit} ELSE {}
             out == eliminate_values(local, cell, IterDigits(other_values, it), it)
         IN [out |-> out,
             arg |-> IF out.id = grid.id THEN out.cells ELSE grid.cells]

\* assign without line 110: it works on the object it was given
assign_no_copy(grid, cell, digit, it) ==
    IF grid.ret = "False"
    THEN [out |-> [grid EXCEPT !.ret = "AttributeError"], arg |-> grid.cells]
    ELSE LET other_values == grid.cells[cell] \ {digit}
             out == eliminate_values(grid, cell, IterDigits(other_values, it), it)
         IN [out |-> out,
             arg |-> IF out.id = grid.id THEN out.cells ELSE grid.cells]

\* assign that writes {digit} into the cell and removes the digit from the peers
assign_overwrite(grid, cell, digit, it) ==
    IF grid.ret = "False"
    THEN [out |-> [grid EXCEPT !.ret = "AttributeError"], arg |-> grid.cells]
    ELSE LET local == [copy(grid) EXCEPT !.cells[cell] = {digit}]
             out == eliminate_peers(local, PeerSeq[it][cell], digit, it)
         IN [out |-> out,
             arg |-> IF out.id = grid.id THEN out.cells ELSE grid.cells]

\* assign returns [out |-> what the call returns, arg |-> the cells of the
\* object that was passed in, as they are after the call]
assign(grid, cell, digit, it) ==
    IF grid.ret = "False"
    THEN [out |-> [grid EXCEPT !.ret = "AttributeError"], arg |-> grid.cells]
    ELSE LET local == copy(grid)
             cur_digits == local.cells[cell]
             other_values == cur_digits \ {digit}
             out == eliminate_values(local, cell, IterDigits(other_values, it), it)
         IN [out |-> out,
             arg |-> IF out.id = grid.id THEN out.cells ELSE grid.cells]

\* solved with any() in place of all() at line 201
solved_any(grid) == \E c \in Cells : Cardinality(grid.cells[c]) = 1

\* solved(grid): every cell has exactly one possible value
solved(grid) == \A c \in Cells : Cardinality(grid.cells[c]) = 1

(***************************************************************************)
(* STEP 1: selection and ordering strategies, backtracking search          *)
(***************************************************************************)
\* line 26 without its filter: every cell is a key
key_list_all(grid) == SelectSeq(RowMajor, LAMBDA key : Cardinality(grid.cells[key]) >= 1)

\* lines 26-27: the unassigned cells in dictionary order, and their counts
key_list(grid) == SelectSeq(RowMajor, LAMBDA key : Cardinality(grid.cells[key]) > 1)
count_list(grid) == [i \in 1..Len(key_list(grid)) |-> Cardinality(grid.cells[key_list(grid)[i]])]

\* the last position holding x
index_last(list, x) == CHOOSE i \in 1..Len(list) : list[i] = x /\ \A j \in (i + 1)..Len(list) : list[j] # x

\* list.index(x): the first position holding x
index(list, x) == CHOOSE i \in 1..Len(list) : list[i] = x /\ \A j \in 1..(i - 1) : list[j] # x
min(list) == CHOOSE x \in {list[i] : i \in 1..Len(list)} : \A j \in 1..Len(list) : x <= list[j]
max(list) == CHOOSE x \in {list[i] : i \in 1..Len(list)} : \A j \in 1..Len(list) : x >= list[j]

\* a selection returns [exc |-> "none", cell |-> the cell], or raises ValueError
\* (min / max of an empty list)
most_constrained(grid) ==
    IF key_list(grid) = << >> THEN [exc |-> "ValueError", cell |-> << 0, 0 >>]
    ELSE [exc |-> "none",
          cell |-> key_list(grid)[index(count_list(grid), min(count_list(grid)))]]

least_constrained(grid) ==
    IF key_list(grid) = << >> THEN [exc |-> "ValueError", cell |-> << 0, 0 >>]
    ELSE [exc |-> "none",
          cell |-> key_list(grid)[index(count_list(grid), max(count_list(grid)))]]

ascending_order(grid, cell) == SelectSeq(DigitSeq, LAMBDA d : d \in grid.cells[cell])
descending_order(grid, cell) == Reverse(ascending_order(grid, cell))

Selections == {"most_constrained", "least_constrained"}
Orderings == {"ascending_order", "descending_order"}

ApplySelection(next_cell, grid) ==
    IF next_cell = "most_constrained" THEN most_constrained(grid) ELSE least_constrained(grid)

ApplyOrdering(order_choices, grid, cell) ==
    IF order_choices = "ascending_order" THEN ascending_order(grid, cell)
    ELSE descending_order(grid, cell)

\* One activation of solve_sudoku that has reached its loop (line 90):
\*   grid     : the object the activation was given, as it is now
\*   entry    : the cells of that object when the activation began
\*   next_idx : the cell chosen at line 87
\*   choices  : the values of line 88 still to be tried
Frame(grid, next_idx, choices) ==
    [grid |-> grid, entry |-> grid.cells, next_idx |-> next_idx, choices |-> choices]

\* solve_sudoku that returns a copy of a solved grid at line 85
solve_enter_copy(grid, next_cell, order_choices) ==
    LET sel == ApplySelection(next_cell, grid)
    IN CASE grid.ret = "False" -> [frame |-> FALSE, value |-> grid]
         [] grid.ret # "False" /\ solved(grid) -> [frame |-> FALSE, value |-> copy(grid)]
         [] grid.ret # "False" /\ ~solved(grid) /\ sel.exc # "none" ->
                [frame |-> FALSE, value |-> [grid EXCEPT !.ret = sel.exc]]
         [] grid.ret # "False" /\ ~solved(grid) /\ sel.exc = "none" ->
                [frame |-> TRUE,
                 value |-> Frame(grid, sel.cell, ApplyOrdering(order_choices, grid, sel.cell))]

\* lines 79-88 of an activation given `grid`: it returns at once
\* ([frame |-> FALSE, value |-> what it returns or raises]) or reaches its loop
\* ([frame |-> TRUE, value |-> the activation])
solve_enter(grid, next_cell, order_choices) ==
    LET sel == ApplySelection(next_cell, grid)
    IN CASE grid.ret = "False" -> [frame |-> FALSE, value |-> grid]
         [] grid.ret # "False" /\ solved(grid) -> [frame |-> FALSE, value |-> grid]
         [] grid.ret # "False" /\ ~solved(grid) /\ sel.exc # "none" ->
                [frame |-> FALSE, value |-> [grid EXCEPT !.ret = sel.exc]]
         [] grid.ret # "False" /\ ~solved(grid) /\ sel.exc = "none" ->
                [frame |-> TRUE,
                 value |-> Frame(grid, sel.cell, ApplyOrdering(order_choices, grid, sel.cell))]

\* the loop of solve_sudoku with line 96 inside it: only the first choice is tried
solve_try_once(top, next_cell, order_choices, it) ==
    LET a == assign(top.grid, top.next_idx, Head(top.choices), it)
    IN [top |-> [top EXCEPT !.grid.cells = a.arg, !.choices = << >>],
        callee |-> solve_enter(a.out, next_cell, order_choices)]

\* the loop of solve_sudoku never moving on to its next choice
solve_try_stuck(top, next_cell, order_choices, it) ==
    LET a == assign(top.grid, top.next_idx, Head(top.choices), it)
    IN [top |-> [top EXCEPT !.grid.cells = a.arg],
        callee |-> solve_enter(a.out, next_cell, order_choices)]

\* lines 91-92 in the activation `top`: the next choice is assigned and the
\* recursive call is entered. [top |-> the activation afterwards,
\* callee |-> solve_enter of the recursive call]
solve_try(top, next_cell, order_choices, it) ==
    LET a == assign(top.grid, top.next_idx, Head(top.choices), it)
    IN [top |-> [top EXCEPT !.grid.cells = a.arg, !.choices = Tail(@)],
        callee |-> solve_enter(a.out, next_cell, order_choices)]

(***************************************************************************)
(* parse_grid                                                              *)
(***************************************************************************)
\* a cell of the rows read in that holds no digit
None == -1

\* lines 216-219: the loop over the rows; cs are the cells of grid_rows that
\* hold a digit, in row-major order (the other cells are skipped at line 218).
\* The loop over cs is the loop over its first half followed by the loop over
\* its second half; a call of assign that raises ends the loop.
RECURSIVE parse_cells(_, _, _, _)
parse_cells(new_grid, grid_rows, cs, it) ==
    IF Len(cs) = 0 THEN new_grid
    ELSE IF Len(cs) = 1 THEN assign(new_grid, cs[1], grid_rows[cs[1]], it).out
    ELSE LET h == Len(cs) \div 2
             first == parse_cells(new_grid, grid_rows, SubSeq(cs, 1, h), it)
         IN IF first.ret = "AttributeError" THEN first
            ELSE parse_cells(first, grid_rows, SubSeq(cs, h + 1, Len(cs)), it)

\* parse_grid with row and column swapped at line 219: assign(new_grid, (col, row), val)
parse_grid_swapped(grid_rows, it) ==
    LET swapped == [c \in Cells |-> grid_rows[<< c[2], c[1] >>]]
    IN parse_cells(empty_grid, swapped, SelectSeq(RowMajor, LAMBDA c : swapped[c] # None), it)

parse_grid(grid_rows, it) ==
    parse_cells(empty_grid, grid_rows,
                SelectSeq(RowMajor, LAMBDA c : grid_rows[c] # None), it)

(***************************************************************************)
(* The callers: a grid is built from rows, then handed to the operations,  *)
(* each call being given the value the previous call returned.             *)
(*   new_grid : the value the last call returned                           *)
(*   grid     : the object that was passed to the last call, as the call   *)
(*              left it                                                    *)
(*   call     : the last call made, the value it was given (before), the   *)
(*              value the call before it had returned (prev), the rows the *)
(*              grid was built from and the grid built from them (start)   *)
(*   depth    : the calls made since the grid was built                    *)
(*   stack    : the activations of solve_sudoku that are in their loop     *)
(*   calls    : the calls of next_cell, order_choices and assign made by   *)
(*              the search since it was called                             *)
(*   it       : the order in which this build iterates over a set          *)
(***************************************************************************)
VARIABLES grid, new_grid, call, depth, stack, calls, it

vars == << grid, new_grid, call, depth, stack, calls, it >>

\* largest digit prefilled in the rows handed to parse_grid
MaxGiven == 2

\* number of prefilled cells in the rows the propagation calls start from
MaxStart == 2

\* calls of solve_sudoku made on one lineage of grids
MaxCalls == 2

NoRows == [c \in Cells |-> None]
NoCell == << 0, 0 >>
NoCalls == [next_cell |-> 0, order_choices |-> 0, assign |-> 0]

\* last row of the rows handed to parse_grid that holds prefilled cells
MaxRow == 3

\* the rows handed to parse_grid: at most k prefilled cells, in rows 1..MaxRow,
\* holding digits 1..MaxGiven
GivenCells == {c \in Cells : c[1] <= MaxRow}
Rows(k) ==
    UNION {{[c \in Cells |-> IF c \in S THEN f[c] ELSE None] :
                f \in [S -> {d \in Digits : d <= MaxGiven}]} :
           S \in {T \in SUBSET GivenCells : Cardinality(T) <= k}}

PrefillRows == Rows(MaxPrefill)
StartRows == Rows(MaxStart)

\* the value a caller passes on: the object it holds (named 0 from here on),
\* or the marker False
Arg(v) == IF v.ret = "False" THEN False ELSE [v EXCEPT !.id = 0]

\* the returned value: id 0 when it is the object that was passed in
Ret(v) == [v EXCEPT !.id = IF @ = 0 THEN 0 ELSE 1]

Call(op, cell, digit, next_cell, order_choices, rows, start, before, prev, again) ==
    [op |-> op, cell |-> cell, digit |-> digit, next_cell |-> next_cell,
     order_choices |-> order_choices, rows |-> rows, start |-> start,
     before |-> before, prev |-> prev, again |-> again]

\* the last call has returned, and it returned a value
Returned == stack = << >> /\ new_grid.ret \in {"grid", "False"}

\* the complete assignments with different digits in all peer cells, as
\* sequences in row-major order: the first i cells filled in every way that
\* keeps peers different
RECURSIVE Fill(_)
Fill(i) ==
    IF i = 0 THEN {<< >>}
    ELSE UNION {{Append(f, d) : d \in {e \in Digits :
                                         \A j \in 1..(i - 1) :
                                            RowMajor[j] \in peers[RowMajor[i]] => f[j] # e}} :
                f \in Fill(i - 1)}

Solutions == Fill(Side * Side)

\* the rows of the complete solutions: cell (r, c) holds the digit of the solution
SolutionRows == {[c \in Cells |-> f[(c[1] - 1) * Side + c[2]]] : f \in Solutions}

\* ---- construction, then search --------------------------------------
Init ==
    /\ grid = empty_grid
    /\ new_grid = empty_grid
    /\ call = Call("init", NoCell, 0, "", "", NoRows, empty_grid, empty_grid, empty_grid, "no")
    /\ depth = 0
    /\ stack = << >>
    /\ calls = NoCalls
    /\ it \in IterOrders

\* new_grid = parse_grid(grid_rows)
ParseCall(grid_rows) ==
    /\ call.op = "init"
    /\ new_grid' = Ret(parse_grid(grid_rows, it))
    /\ grid' = empty_grid
    /\ call' = Call("parse_grid", NoCell, 0, "", "", grid_rows, new_grid', empty_grid,
                   new_grid, "no")
    /\ UNCHANGED << depth, stack, calls, it >>

\* new_grid = solve_sudoku(new_grid, next_cell, order_choices): lines 79-88 of
\* the outermost activation
SolveCall(next_cell, order_choices) ==
    /\ call.op # "init"
    /\ Returned
    /\ depth < MaxCalls
    /\ \E e \in {solve_enter(Arg(new_grid), next_cell, order_choices)} :
       LET arg == Arg(new_grid)
       IN /\ call' = Call("solve_sudoku", NoCell, 0, next_cell, order_choices, call.rows,
                          call.start, arg, new_grid, "no")
          /\ grid' = arg
          /\ IF e.frame
             THEN /\ stack' = << e.value >>
                  /\ new_grid' = arg
                  /\ calls' = [NoCalls EXCEPT !.next_cell = 1, !.order_choices = 1]
             ELSE /\ stack' = << >>
                  /\ new_grid' = Ret(e.value)
                  /\ calls' = NoCalls
    /\ depth' = depth + 1
    /\ UNCHANGED it

\* next_cell(new_grid) called by itself on a grid: it returns a cell
\* (call.cell) or raises (new_grid.ret)
SelectCall(next_cell) ==
    /\ call.op # "init"
    /\ Returned
    /\ new_grid.ret = "grid"
    /\ depth < MaxCalls
    /\ \E sel \in {ApplySelection(next_cell, Arg(new_grid))} :
       LET arg == Arg(new_grid)
       IN /\ call' = Call(next_cell, sel.cell, 0, next_cell, "", call.rows, call.start, arg,
                          new_grid, "no")
          /\ grid' = arg
          /\ new_grid' = IF sel.exc = "none" THEN arg ELSE [arg EXCEPT !.ret = sel.exc]
    /\ depth' = depth + 1
    /\ UNCHANGED << stack, calls, it >>

\* lines 90-94: one turn of the loop of the innermost activation, up to the
\* point where the recursive call either returns or reaches its own loop
SolveTry ==
    /\ stack # << >>
    /\ stack[Len(stack)].choices # << >>
    /\ \E t \in {solve_try(stack[Len(stack)], call.next_cell, call.order_choices, it)} :
       LET stk == [stack EXCEPT ![Len(stack)] = t.top]
       IN /\ calls' = [calls EXCEPT !.assign = @ + 1,
                                    !.next_cell = IF t.callee.frame THEN @ + 1 ELSE @,
                                    !.order_choices = IF t.callee.frame THEN @ + 1 ELSE @]
          /\ IF t.callee.frame
             THEN \* the recursive call is in its loop
                  /\ stack' = Append(stk, t.callee.value)
                  /\ UNCHANGED << grid, new_grid >>
             ELSE IF t.callee.value.ret = "False"
             THEN \* outcome == False: the loop goes on
                  /\ stack' = stk
                  /\ UNCHANGED << grid, new_grid >>
             ELSE \* outcome != False: every activation returns it (line 94)
                  /\ stack' = << >>
                  /\ new_grid' = Ret(t.callee.value)
                  /\ grid' = stk[1].grid
    /\ UNCHANGED << call, depth, it >>

\* line 96: every choice of the innermost activation has failed
SolveFail ==
    /\ stack # << >>
    /\ stack[Len(stack)].choices = << >>
    /\ IF Len(stack) = 1
       THEN /\ new_grid' = [stack[1].grid EXCEPT !.ret = "False"]
            /\ grid' = stack[1].grid
       ELSE UNCHANGED << grid, new_grid >>
    /\ stack' = SubSeq(stack, 1, Len(stack) - 1)
    /\ UNCHANGED << call, depth, calls, it >>

Next ==
    \/ call.op = "init" /\ \E grid_rows \in PrefillRows : ParseCall(grid_rows)
    \/ call.op = "init" /\ \E grid_rows \in SolutionRows : ParseCall(grid_rows)
    \/ \E s \in Selections, o \in Orderings : SolveCall(s, o)
    \/ \E s \in Selections : SelectCall(s)
    \/ SolveTry
    \/ SolveFail

Spec == Init /\ [][Next]_vars

\* ---- construction, then calls of assign and eliminate ----------------
\* the grid has been built from rows with at most MaxStart prefilled cells,
\* and parse_grid has returned
InitProp ==
    /\ it \in IterOrders
    /\ \E grid_rows \in StartRows :
          /\ new_grid = Ret(parse_grid(grid_rows, it))
          /\ call = Call("parse_grid", NoCell, 0, "", "", grid_rows, new_grid, empty_grid,
                         empty_grid, "no")
    /\ new_grid.ret \in {"grid", "False"}
    /\ grid = empty_grid
    /\ depth = 0
    /\ stack = << >>
    /\ calls = NoCalls

\* new_grid = assign(new_grid, cell, digit)
AssignCall(cell, digit) ==
    /\ depth = 0
    /\ \E a \in {assign(Arg(new_grid), cell, digit, it)} :
       LET arg == Arg(new_grid)
       IN /\ new_grid' = Ret(a.out)
          /\ grid' = [arg EXCEPT !.cells = a.arg]
          /\ call' = Call("assign", cell, digit, "", "", call.rows, call.start, arg,
                          new_grid, "no")
    /\ depth' = depth + 1
    /\ UNCHANGED << stack, calls, it >>

\* what a call of eliminate leaves: the value returned, and the object passed
Eliminated(arg, cell, digit, again) ==
    \E out \in {eliminate(arg, cell, digit, it)} :
       /\ new_grid' = Ret(out)
       /\ grid' = IF arg.ret = "False" THEN arg ELSE [arg EXCEPT !.cells = out.cells]
       /\ call' = Call("eliminate", cell, digit, "", "", call.rows, call.start, arg,
                       new_grid, again)
       /\ depth' = depth + 1
       /\ UNCHANGED << stack, calls, it >>

\* new_grid = eliminate(new_grid, cell, digit)
EliminateCall(cell, digit) ==
    /\ depth = 0
    /\ Eliminated(Arg(new_grid), cell, digit, "no")

\* after new_grid = eliminate(grid, cell, digit), the same call once more on
\* the object `grid` the caller still holds
EliminateAgain ==
    /\ depth = 1
    /\ call.op = "eliminate"
    /\ Eliminated(IF call.before.ret = "False" THEN False ELSE grid,
                  call.cell, call.digit, "object")

\* after new_grid = eliminate(grid, cell, digit), the same cell and digit
\* eliminated from the value returned
EliminateResult ==
    /\ depth = 1
    /\ call.op = "eliminate"
    /\ Eliminated(Arg(new_grid), call.cell, call.digit, "result")

NextProp ==
    \/ \E cell \in Cells, digit \in ArgDigits : AssignCall(cell, digit)
    \/ \E cell \in Cells, digit \in ArgDigits : EliminateCall(cell, digit)
    \/ EliminateAgain
    \/ EliminateResult

SpecProp == InitProp /\ [][NextProp]_vars

(***************************************************************************)
(* Vocabulary of the properties                                            *)
(***************************************************************************)
\* every cell of `cells` holds exactly one digit of the grid
AllSingle(cells) == \A c \in Cells : Cardinality(cells[c]) = 1 /\ cells[c] \subseteq Digits

\* no two peers hold the same single digit
PeersDiffer(cells) == \A c \in Cells : \A p \in peers[c] : cells[c] # cells[p]

HasEmpty(cells) == \E c \in Cells : cells[c] = {}

\* some complete assignment takes every cell's digit from its candidates in `cells`
HasSolution(cells) ==
    \E f \in Solutions : \A j \in 1..(Side * Side) : f[j] \in cells[RowMajor[j]]

\* the last call was solve_sudoku on a grid, and it has returned
SolveReturned == call.op = "solve_sudoku" /\ stack = << >> /\ call.before.ret = "grid"

\* the last call was `op` on a grid without empty cells
CalledOnGrid(op) == call.op = op /\ call.before.ret = "grid" /\ ~HasEmpty(call.before.cells)

\* two returned values are the same result
SameResult(v, w) == v.ret = w.ret /\ (v.ret = "grid" => v.cells = w.cells)

(***************************************************************************)
(* Properties                                                              *)
(***************************************************************************)
\* C1: a grid returned by solve_sudoku holds exactly one digit in every cell,
\* and any two peer cells hold different digits.
SolveSound ==
    (SolveReturned /\ new_grid.ret = "grid")
        => (AllSingle(new_grid.cells) /\ PeersDiffer(new_grid.cells))

\* C1 witness: the search returned a grid after trying values.
SolveSoundWitness ==
    SolveReturned /\ new_grid.ret = "grid" /\ calls.assign > 1 /\ call.rows # NoRows

\* C2: solve_sudoku returns False exactly when no complete assignment takes
\* every cell's digit from its candidates and gives peers different digits;
\* otherwise it returns a grid.
SolveExhaustive ==
    SolveReturned
        => /\ new_grid.ret \in {"grid", "False"}
           /\ (new_grid.ret = "False") <=> ~HasSolution(call.before.cells)

\* C2 witness: every trial of every branch failed, on a grid parse_grid built.
SolveExhaustiveWitness ==
    SolveReturned /\ new_grid.ret = "False" /\ calls.assign > 1 /\ depth = 1

\* C3: assign of a digit that is not a candidate of the cell (out of bounds,
\* eliminated earlier, or different from the cell's single digit) returns False.
AssignRejects ==
    (CalledOnGrid("assign") /\ call.digit \notin call.before.cells[call.cell])
        => new_grid.ret = "False"

\* C3 witness: a digit of the grid assigned to a cell that holds another single
\* digit.
AssignRejectsWitness ==
    /\ CalledOnGrid("assign")
    /\ Cardinality(call.before.cells[call.cell]) = 1
    /\ call.digit \in Digits \ call.before.cells[call.cell]
    /\ new_grid.ret = "False"

\* two peer cells of the rows hold the same digit
Conflict(rows) ==
    \E c \in Cells : \E p \in peers[c] : rows[c] # None /\ rows[c] = rows[p]

\* C4: parse_grid returns False whenever two peer cells of the
\* rows hold the same digit, wherever they are.
ParseRejectsConflict ==
    (call.op = "parse_grid" /\ Conflict(call.rows)) => new_grid.ret = "False"

\* C5: eliminate, assign and solve_sudoku given False return False.
FalseAbsorbing ==
    (call.op \in {"assign", "eliminate", "solve_sudoku"} /\ call.before.ret = "False")
        => new_grid.ret = "False"

\* C6: assign leaves the candidate sets of the grid it was given as they were.
AssignKeepsArg ==
    CalledOnGrid("assign") => (grid.ret = "grid" /\ grid.cells = call.before.cells)

\* C6 witness: assign returned a grid that differs from the one it was given.
AssignKeepsArgWitness ==
    /\ CalledOnGrid("assign")
    /\ new_grid.ret = "grid"
    /\ new_grid.cells # call.before.cells
    /\ new_grid.id # 0

\* C7: after a call of eliminate or assign on a grid without empty
\* cells, neither the value returned nor the object passed in has an empty cell.
NoEmptyCellLeft ==
    (CalledOnGrid("assign") \/ CalledOnGrid("eliminate"))
        => /\ (new_grid.ret = "grid" => ~HasEmpty(new_grid.cells))
           /\ ~HasEmpty(grid.cells)

\* C8: the same call of eliminate made again on the same grid
\* gives the result of the first call.
EliminateTwiceSame ==
    (call.op = "eliminate" /\ call.again = "object") => SameResult(new_grid, call.prev)

\* C9: every grid obtained by calls of assign and eliminate has, in every cell,
\* a subset of the candidates of the grid the call was given, and of the grid
\* the sequence started from.
Monotone ==
    (call.op \in {"assign", "eliminate"} /\ call.before.ret = "grid")
        => /\ \A c \in Cells : grid.cells[c] \subseteq call.before.cells[c]
           /\ new_grid.ret = "grid" =>
                 \A c \in Cells : /\ new_grid.cells[c] \subseteq call.before.cells[c]
                                  /\ new_grid.cells[c] \subseteq call.start.cells[c]

\* C9 witness: the second call of a sequence returned a smaller grid.
MonotoneWitness ==
    /\ call.op = "eliminate"
    /\ depth = 2
    /\ new_grid.ret = "grid"
    /\ new_grid.cells # call.start.cells

\* C10: solve_sudoku on a grid whose cells are all single returns that very
\* grid, its candidate sets unchanged, and calls neither next_cell nor
\* order_choices nor assign.
SolveSolved ==
    (call.op = "solve_sudoku" /\ call.before.ret = "grid" /\ AllSingle(call.before.cells))
        => /\ stack = << >>
           /\ new_grid.ret = "grid"
           /\ new_grid.id = 0
           /\ new_grid.cells = call.before.cells
           /\ grid.cells = call.before.cells
           /\ calls = NoCalls

\* C10 witness: the grid a first search returned is searched again.
SolveSolvedWitness ==
    /\ call.op = "solve_sudoku"
    /\ depth = 2
    /\ call.before.ret = "grid"
    /\ AllSingle(call.before.cells)
    /\ new_grid.ret = "grid"

\* C11: parse_grid on the rows of a complete solution returns a grid that
\* solved() accepts and whose every cell holds exactly the digit of the rows.
ParseRoundTrip ==
    (call.op = "parse_grid" /\ call.rows \in SolutionRows)
        => /\ new_grid.ret = "grid"
           /\ solved(new_grid)
           /\ \A c \in Cells : new_grid.cells[c] = {call.rows[c]}

\* C11 witness: a complete solution that is not its own transpose was parsed.
ParseRoundTripWitness ==
    /\ call.op = "parse_grid"
    /\ call.rows \in SolutionRows
    /\ \E c \in Cells : call.rows[c] # call.rows[<< c[2], c[1] >>]
    /\ new_grid.ret = "grid"

\* C12: most_constrained and least_constrained never return a cell that holds
\* exactly one digit, and they raise ValueError exactly when every cell of the
\* grid holds exactly one digit.
SelectFilters ==
    call.op \in Selections
        => /\ new_grid.ret \in {"grid", "ValueError"}
           /\ (new_grid.ret = "ValueError")
                 <=> (\A c \in Cells : Cardinality(call.before.cells[c]) = 1)
           /\ new_grid.ret = "grid"
                 => (call.cell \in Cells /\ Cardinality(call.before.cells[call.cell]) # 1)

\* C12 witness: a selection raised on a grid built from a complete solution.
SelectFiltersWitness ==
    /\ call.op \in Selections
    /\ new_grid.ret = "ValueError"
    /\ call.rows \in SolutionRows
    /\ depth = 1

\* the work left to the activations of solve_sudoku: for each depth of the
\* recursion, one more than the choices its loop has still to try (0 when
\* there is no activation at that depth)
Rank(stk) ==
    [i \in 1..(Side * Side) |-> IF i <= Len(stk) THEN Len(stk[i].choices) + 1 ELSE 0]

\* lexicographic order of ranks
RankLess(a, b) ==
    \E k \in 1..(Side * Side) : a[k] < b[k] /\ \A j \in 1..(k - 1) : a[j] = b[j]

\* C13: solve_sudoku terminates after finitely many recursive calls and
\* returns False or a solved grid: the recursion is never deeper than the
\* number of cells, every step of a search that is under way lowers the
\* rank of its activations in the (well-founded) lexicographic order, and a
\* search that has returned has returned False or a solved grid.
SolveTerminates ==
    /\ [](Len(stack) <= Side * Side)
    /\ [][stack # << >> => RankLess(Rank(stack'), Rank(stack))]_vars
    /\ []((call.op = "solve_sudoku" /\ stack = << >>)
            => \/ new_grid.ret = "False"
               \/ new_grid.ret = "grid" /\ solved(new_grid))

\* C13 witness: a search with least_constrained has returned after some trial
\* failed.
SolveTerminatesWitness ==
    /\ call.op = "solve_sudoku"
    /\ call.next_cell = "least_constrained"
    /\ stack = << >>
    /\ calls.assign > calls.next_cell
    /\ new_grid.ret = "grid"
\* C14: when assign, given a grid without empty cells, returns a grid, the
\* cell holds exactly the digit in it and no peer of the cell has the digit
\* among its candidates.
AssignCommits ==
    (CalledOnGrid("assign") /\ new_grid.ret = "grid")
        => /\ new_grid.cells[call.cell] = {call.digit}
           /\ \A p \in peers[call.cell] : call.digit \notin new_grid.cells[p]

\* C14 witness: a digit assigned to a cell with several candidates, some peer
\* of which had the digit among its candidates.
AssignCommitsWitness ==
    /\ CalledOnGrid("assign")
    /\ new_grid.ret = "grid"
    /\ Cardinality(call.before.cells[call.cell]) > 1
    /\ \E p \in peers[call.cell] : call.digit \in call.before.cells[p]
\* the cells of `cells` with more than one candidate
Unassigned(cells) == {c \in Cells : Cardinality(cells[c]) > 1}

\* the place of a cell in row-major order
Place(c) == (c[1] - 1) * Side + c[2]

\* cell c is the first cell, in row-major order, among the unassigned cells
\* whose number of candidates is `size`
FirstOfSize(cells, c, size) ==
    /\ c \in Unassigned(cells)
    /\ Cardinality(cells[c]) = size
    /\ \A u \in Unassigned(cells) : Cardinality(cells[u]) = size => Place(c) <= Place(u)

\* C15: most_constrained returns the first cell in row-major order, among
\* the cells with more than one candidate, whose number of candidates is the
\* least among those cells; least_constrained the first whose number is the
\* greatest.
SelectFirstExtreme ==
    (call.op \in Selections /\ new_grid.ret = "grid")
        => LET cells == call.before.cells
               size == Cardinality(cells[call.cell])
           IN /\ FirstOfSize(cells, call.cell, size)
              /\ call.op = "most_constrained"
                    => \A u \in Unassigned(cells) : size <= Cardinality(cells[u])
              /\ call.op = "least_constrained"
                    => \A u \in Unassigned(cells) : size >= Cardinality(cells[u])

\* C15 witness: most_constrained passed over an earlier cell with more
\* candidates and chose the first of several cells with the least number.
SelectFirstExtremeWitness ==
    /\ call.op = "most_constrained"
    /\ new_grid.ret = "grid"
    /\ \E u \in Unassigned(call.before.cells) :
          /\ Place(u) < Place(call.cell)
          /\ Cardinality(call.before.cells[u]) > Cardinality(call.before.cells[call.cell])
    /\ \E u \in Unassigned(call.before.cells) :
          /\ Place(u) > Place(call.cell)
          /\ Cardinality(call.before.cells[u]) = Cardinality(call.before.cells[call.cell])
\* C16: whatever the order in which assign eliminates the other values of
\* the cell and in which the peers of a forced cell are visited, assign
\* returns the same outcome: False, or a grid with the same candidate sets.
AssignOrderFree ==
    CalledOnGrid("assign")
        => \A o \in SetOrders :
              SameResult(Ret(assign(call.before, call.cell, call.digit, o).out), new_grid)

\* C16 witness: an assign that forced a cell other than the one assigned.
AssignOrderFreeWitness ==
    /\ CalledOnGrid("assign")
    /\ new_grid.ret = "grid"
    /\ \E c \in Cells \ {call.cell} :
          /\ Cardinality(call.before.cells[c]) > 1
          /\ Cardinality(new_grid.cells[c]) = 1
\* C17: eliminate of a candidate of the cell that leaves at least two digits
\* in it returns the grid it was given, changed in that cell only, whose
\* candidates are the old ones without the digit.
EliminateLocal ==
    (/\ call.op = "eliminate"
     /\ call.before.ret = "grid"
     /\ call.digit \in call.before.cells[call.cell]
     /\ Cardinality(call.before.cells[call.cell] \ {call.digit}) >= 2)
        => /\ new_grid.ret = "grid"
           /\ new_grid.id = 0
           /\ new_grid.cells =
                 [call.before.cells EXCEPT ![call.cell] = @ \ {call.digit}]

\* C17 witness: a digit eliminated from a cell with all its candidates, some
\* peer of which is prefilled.
EliminateLocalWitness ==
    /\ call.op = "eliminate"
    /\ call.before.ret = "grid"
    /\ call.digit \in call.before.cells[call.cell]
    /\ Cardinality(call.before.cells[call.cell]) >= 3
    /\ \E p \in peers[call.cell] : call.rows[p] # None
    /\ new_grid.ret = "grid"
\* the single digit of a cell is a candidate of none of its peers
Closed(cells) ==
    \A c \in Cells :
       Cardinality(cells[c]) = 1 => \A p \in peers[c] : cells[c] \cap cells[p] = {}

\* C18: in every grid that parse_grid returns, that solve_sudoku recurses
\* into or returns, all of them made from the empty grid by calls of assign,
\* the digit of a cell with a single candidate is a candidate of none of
\* the cell's peers.
PropagationClosed ==
    /\ new_grid.ret = "grid" => Closed(new_grid.cells)
    /\ \A i \in 1..Len(stack) : Closed(stack[i].grid.cells)

\* C18 witness: the search is two calls deep in a grid where a cell that was
\* not prefilled holds a single digit.
PropagationClosedWitness ==
    /\ Len(stack) >= 2
    /\ \E c \in Cells :
          /\ call.rows[c] = None
          /\ Cardinality(stack[Len(stack)].grid.cells[c]) = 1
\* C19: a grid returned by solve_sudoku holds, in every cell, a digit that
\* was a candidate of the cell in the grid solve_sudoku was given, and in
\* every cell prefilled in the rows given to parse_grid the prefilled digit.
SolveRespectsInput ==
    (SolveReturned /\ new_grid.ret = "grid")
        => \A c \in Cells :
              /\ new_grid.cells[c] \subseteq call.before.cells[c]
              /\ call.rows[c] # None => new_grid.cells[c] = {call.rows[c]}

\* C19 witness: a search in descending order returned a grid for rows with
\* as many prefilled cells as the bounds allow, none of them holding the
\* greatest digit.
SolveRespectsInputWitness ==
    /\ SolveReturned
    /\ new_grid.ret = "grid"
    /\ call.order_choices = "descending_order"
    /\ Cardinality({c \in Cells : call.rows[c] # None}) = MaxPrefill
    /\ calls.assign >= 1
====
